---- MODULE Spec2Model ----
(***************************************************************************)
(* A model of ericfrederich/wordle: the feedback computation               *)
(* (ResultBase.get), the textual codec (ResultBase.from_str / __str__),     *)
(* the constraint model (KnowledgeBase) and guess_reduction.                *)
(*                                                                         *)
(* A Python str is a sequence of one-character strings.  A dict is a       *)
(* function whose DOMAIN is the set of keys.                               *)
(***************************************************************************)
EXTENDS Integers, Sequences, FiniteSets, TLC

VARIABLES
    pc,        \* position of the driver of the specification being run
    cls,       \* the Result / Knowledge variant in use
    answer,    \* ResultBase.get: the answer argument (the hidden answer of a game)
    guess,     \* ResultBase.get: the guess argument
    result,    \* the Result returned by get
    encoded,   \* str(result), or the raw text handed to from_str
    decoded,   \* outcome of from_str
    k,         \* the KnowledgeBase instance
    hist,      \* the add_result calls made on k so far: (result, raised) in order
    red,       \* outcome of the latest guess_reduction call
    gen,       \* nerdle_equations.generate: the loop variables and the line printed
    search     \* best_guess_cmd: the guesses, the pending futures, data, the list returned

vars == <<pc, cls, answer, guess, result, encoded, decoded, k, hist, red, gen, search>>

----------------------------------------------------------------------------
(* Bounds *)

\* length of the words handed to get in SpecGet
MaxLen == 3
\* number of characters of each variant's alphabet that inputs are drawn from
NChars == 3
\* length of the raw text handed to from_str in SpecCodec
MaxStrLen == 4
\* number of add_result calls on one KnowledgeBase instance
MaxFolds == 2
\* length of a pretend_answers list passed to guess_reduction
MaxPretend == 1

----------------------------------------------------------------------------
(* Alphabets *)

None == "None"

ascii_lowercase ==
    <<"a","b","c","d","e","f","g","h","i","j","k","l","m",
      "n","o","p","q","r","s","t","u","v","w","x","y","z">>

digits == <<"0","1","2","3","4","5","6","7","8","9">>

Range(s) == {s[i] : i \in DOMAIN s}

\* WordleResult.allowed_characters / NerdleResult.allowed_characters
allowed_characters(c) ==
    IF c = "WordleResult"
    THEN Range(ascii_lowercase)
    ELSE Range(digits \o <<"+","-","*","/","=">>)

ResultClasses == {"WordleResult", "NerdleResult"}

\* the characters inputs are drawn from: the first NChars letters, or the
\* last NChars characters of the Nerdle alphabet (operators first)
Alphabet(c) ==
    IF c = "WordleResult"
    THEN {ascii_lowercase[i] : i \in 1..NChars}
    ELSE LET full == digits \o <<"+","-","*","/","=">>
         IN {full[Len(full) + 1 - i] : i \in 1..NChars}

Words(c, n) == [1..n -> Alphabet(c)]

----------------------------------------------------------------------------
(* Result *)

TileFeedback == {"correct", "wrong", "wrong_place"}

ResultPiece(c, f) == [character |-> c, feedback |-> f]

NoResult == [cls |-> None, pieces |-> <<>>]

\* str.count for a one-character needle
count(s, c) == Cardinality({i \in DOMAIN s : s[i] = c})

Min(a, b) == IF a < b THEN a ELSE b

\* first loop of get: the obvious correct and wrong
FirstPass(a, g) ==
    [i \in 1..Min(Len(a), Len(g)) |->
        IF g[i] = a[i]
        THEN ResultPiece(g[i], "correct")
        ELSE IF g[i] \notin Range(a)
             THEN ResultPiece(g[i], "wrong")
             ELSE ResultPiece(g[i], None)]

\* a variant of already_marked that forgets the pieces marked correct
already_marked_only_wrong_place(pieces, c) ==
    Cardinality({j \in DOMAIN pieces :
        /\ pieces[j].character = c
        /\ pieces[j].feedback = "wrong_place"})

already_marked(pieces, c) ==
    Cardinality({j \in DOMAIN pieces :
        /\ pieces[j].character = c
        /\ pieces[j].feedback \in {"correct", "wrong_place"}})

\* a variant of SecondPass that counts the marks left by the first loop only,
\* as if the pieces were not mutated in place
SecondPass_snapshot(pieces, a, i) ==
    [j \in DOMAIN pieces |->
        IF j < i \/ pieces[j].feedback # None THEN pieces[j]
        ELSE [pieces[j] EXCEPT !.feedback =
                 IF count(a, pieces[j].character) > already_marked(pieces, pieces[j].character)
                 THEN "wrong_place" ELSE "wrong"]]

\* second loop of get, from piece i on: pieces is mutated in place
RECURSIVE SecondPass(_, _, _)
SecondPass(pieces, a, i) ==
    IF i > Len(pieces) THEN pieces
    ELSE IF pieces[i].feedback # None THEN SecondPass(pieces, a, i + 1)
    ELSE LET in_answer == count(a, pieces[i].character)
             fb == IF in_answer > already_marked(pieces, pieces[i].character)
                   THEN "wrong_place" ELSE "wrong"
         IN SecondPass([pieces EXCEPT ![i].feedback = fb], a, i + 1)

\* ResultBase.get: whatever class it is called on, it returns a WordleResult
get(c, a, g) ==
    [cls |-> "WordleResult", pieces |-> SecondPass(FirstPass(a, g), a, 1)]

RECURSIVE Join(_)
Join(ss) == IF ss = <<>> THEN <<>> ELSE Head(ss) \o Join(Tail(ss))

\* ResultBase.__str__
Str(r) ==
    Join([i \in DOMAIN r.pieces |->
        CASE r.pieces[i].feedback = "correct" -> <<r.pieces[i].character, "@">>
          [] r.pieces[i].feedback = "wrong" -> <<r.pieces[i].character>>
          [] r.pieces[i].feedback = "wrong_place" -> <<r.pieces[i].character, "?">>])

\* ResultBase.from_str, from symbol i on
RECURSIVE from_str_loop(_, _, _, _, _)
from_str_loop(c, s, i, pieces, previous) ==
    IF i > Len(s) THEN [status |-> "ok", result |-> [cls |-> c, pieces |-> pieces]]
    ELSE IF s[i] \in allowed_characters(c)
    THEN from_str_loop(c, s, i + 1, Append(pieces, ResultPiece(s[i], "wrong")), s[i])
    ELSE IF s[i] \in {"?", "@"}
    THEN IF previous = None
         \* `None not in "abc..."` raises TypeError before the ValueError is built
         THEN [status |-> "TypeError", result |-> NoResult]
         ELSE IF \/ previous \notin allowed_characters(c)
                 \/ pieces[Len(pieces)].feedback # "wrong"
         THEN [status |-> "ValueError", result |-> NoResult]
         ELSE from_str_loop(c, s, i + 1,
                  [pieces EXCEPT ![Len(pieces)].feedback =
                      IF s[i] = "?" THEN "wrong_place" ELSE "correct"],
                  s[i])
    ELSE [status |-> "ValueError", result |-> NoResult]

from_str(c, s) == from_str_loop(c, s, 1, <<>>, None)

NoOutcome == [status |-> None, result |-> NoResult]

----------------------------------------------------------------------------
(* Derived views of a Result *)

\* ResultBase.correct_chars: the (index, character) pairs, in index order
correct_chars(r) ==
    LET idx == SelectSeq([i \in DOMAIN r.pieces |-> i],
                         LAMBDA i : r.pieces[i].feedback = "correct")
    IN [j \in DOMAIN idx |-> <<idx[j], r.pieces[idx[j]].character>>]

min_required(r, c) ==
    Cardinality({i \in DOMAIN r.pieces :
        r.pieces[i].character = c /\ r.pieces[i].feedback # "wrong"})

\* ResultBase.char_mins
char_mins(r) ==
    LET chars == {r.pieces[i].character : i \in DOMAIN r.pieces}
    IN [c \in {x \in chars : min_required(r, x) # 0} |-> min_required(r, c)]

\* a variant of char_maxes that records no maximum
char_maxes_none(r) == [x \in {} |-> 0]

\* ResultBase.char_maxes
char_maxes(r) ==
    LET wrongs == {r.pieces[i].character :
                      i \in {j \in DOMAIN r.pieces : r.pieces[j].feedback = "wrong"}}
    IN [c \in wrongs |-> IF c \in DOMAIN char_mins(r) THEN char_mins(r)[c] ELSE 0]

\* ResultBase.wrong_positions
wrong_positions(r) ==
    [i \in {j \in DOMAIN r.pieces : r.pieces[j].feedback = "wrong_place"} |->
        r.pieces[i].character]

----------------------------------------------------------------------------
(* KnowledgeBase *)

KnowledgeClasses == {"WordleKnowledge", "NerdleKnowledge"}

\* KnowledgeBase.result_cls
result_cls(kc) == IF kc = "WordleKnowledge" THEN "WordleResult" ELSE "NerdleResult"

\* WordleKnowledge.ANSWER_LENGTH (5) and NerdleKnowledge.ANSWER_LENGTH (8),
\* both scaled down to the bound
AnswerLen == 2
ANSWER_LENGTH(kc) == AnswerLen

EmptyDict == [x \in {} |-> 0]

\* dataclass defaults followed by KnowledgeBase.__post_init__
NewKnowledge(kc) ==
    [char_mins |-> EmptyDict,
     char_maxes |-> EmptyDict,
     wrong_positions |-> [i \in 1..ANSWER_LENGTH(kc) |-> {}],
     answer |-> [i \in 1..ANSWER_LENGTH(kc) |-> None]]

\* a variant of merge_correct without the assertion: a known position is overwritten
RECURSIVE merge_correct_overwrite(_, _, _)
merge_correct_overwrite(ans, cc, j) ==
    IF j > Len(cc) THEN [answer |-> ans, raised |-> FALSE]
    ELSE merge_correct_overwrite([ans EXCEPT ![cc[j][1]] = cc[j][2]], cc, j + 1)

\* add_result, "merge the correct letters", from pair j of cc on
RECURSIVE merge_correct(_, _, _)
merge_correct(ans, cc, j) ==
    IF j > Len(cc) THEN [answer |-> ans, raised |-> FALSE]
    ELSE LET i == cc[j][1]
             l == cc[j][2]
         IN IF ans[i] # None /\ ans[i] # l
            THEN [answer |-> ans, raised |-> TRUE]
            ELSE merge_correct([ans EXCEPT ![i] = l], cc, j + 1)

\* a variant of mins_failing without the assertion against the known maximum
mins_failing_none(kb, rm) == {}

\* the characters of the result's char_mins whose assertion fails
mins_failing(kb, rm) ==
    {l \in DOMAIN rm : l \in DOMAIN kb.char_maxes /\ ~(rm[l] <= kb.char_maxes[l])}

\* a variant of merge_mins that assigns the result's minimum unconditionally
merge_mins_overwrite(kb, rm, done) ==
    [kb EXCEPT !.char_mins =
        [l \in DOMAIN kb.char_mins \cup done |->
            IF l \in done THEN rm[l] ELSE kb.char_mins[l]]]

\* add_result, "merge the min letter counts", for the characters in done
merge_mins(kb, rm, done) ==
    LET cur(l) == IF l \in DOMAIN kb.char_mins THEN kb.char_mins[l] ELSE 0
        upd == {l \in done : rm[l] > cur(l)}
    IN [kb EXCEPT !.char_mins =
           [l \in DOMAIN kb.char_mins \cup upd |->
               IF l \in upd THEN rm[l] ELSE kb.char_mins[l]]]

\* a variant of maxes_failing that rejects any maximum for a character that has one
maxes_failing_strict(kb, rx) ==
    {l \in DOMAIN rx :
        \/ l \in DOMAIN kb.char_mins /\ ~(rx[l] >= kb.char_mins[l])
        \/ l \in DOMAIN kb.char_maxes}

\* the characters of the result's char_maxes one of whose assertions fails
maxes_failing(kb, rx) ==
    {l \in DOMAIN rx :
        \/ l \in DOMAIN kb.char_mins /\ ~(rx[l] >= kb.char_mins[l])
        \/ l \in DOMAIN kb.char_maxes /\ ~(rx[l] = kb.char_maxes[l])}

\* add_result, "merge the max letter counts", for the characters in done
merge_maxes(kb, rx, done) ==
    LET new == {l \in done : l \notin DOMAIN kb.char_maxes}
    IN [kb EXCEPT !.char_maxes =
           [l \in DOMAIN kb.char_maxes \cup new |->
               IF l \in new THEN rx[l] ELSE kb.char_maxes[l]]]

\* add_result, "merge the wrong positions"
merge_wrong(kb, wp) ==
    [kb EXCEPT !.wrong_positions =
        [i \in DOMAIN kb.wrong_positions |->
            IF i \in DOMAIN wp THEN kb.wrong_positions[i] \cup {wp[i]}
            ELSE kb.wrong_positions[i]]]

\* KnowledgeBase.add_result: the set of (instance afterwards, raised) outcomes.
\* result.char_mins and result.char_maxes are dicts filled while iterating a
\* set of str, so their order is arbitrary: when an assertion fails, the
\* characters merged before it are any subset of those that do not fail.
add_result(kb, r) ==
    LET p1 == merge_correct(kb.answer, correct_chars(r), 1)
        k1 == [kb EXCEPT !.answer = p1.answer]
        rm == char_mins(r)
        rx == char_maxes(r)
        k2 == merge_mins(k1, rm, DOMAIN rm)
    IN IF p1.raised THEN {[k |-> k1, raised |-> TRUE]}
       ELSE IF mins_failing(k1, rm) # {}
       THEN {[k |-> merge_mins(k1, rm, done), raised |-> TRUE] :
                done \in SUBSET (DOMAIN rm \ mins_failing(k1, rm))}
       ELSE IF maxes_failing(k2, rx) # {}
       THEN {[k |-> merge_maxes(k2, rx, done), raised |-> TRUE] :
                done \in SUBSET (DOMAIN rx \ maxes_failing(k2, rx))}
       ELSE {[k |-> merge_wrong(merge_maxes(k2, rx, DOMAIN rx), wrong_positions(r)),
              raised |-> FALSE]}

\* KnowledgeBase.is_valid_solution
is_valid_solution(kb, word) ==
    /\ \A l \in DOMAIN kb.char_mins : ~(count(word, l) < kb.char_mins[l])
    /\ \A l \in DOMAIN kb.char_maxes : ~(count(word, l) > kb.char_maxes[l])
    /\ \A i \in 1..Min(Len(kb.answer), Len(word)) :
           ~(kb.answer[i] # None /\ kb.answer[i] # word[i])
    /\ \A i \in DOMAIN word : word[i] \notin kb.wrong_positions[i]

\* every word of length n over the characters of alpha, as a list
RECURSIVE WordList(_, _)
WordList(alpha, n) ==
    IF n = 0 THEN << <<>> >>
    ELSE LET shorter == WordList(alpha, n - 1)
         IN Join([i \in DOMAIN alpha |->
                     [j \in DOMAIN shorter |-> <<alpha[i]>> \o shorter[j]]])

RECURSIVE SetToSeq(_)
SetToSeq(S) ==
    IF S = {} THEN <<>>
    ELSE LET x == CHOOSE y \in S : TRUE IN <<x>> \o SetToSeq(S \ {x})

\* the default solution_list: SECRET_WORDS, or get_all_equations()
default_solution_list(kc) ==
    WordList(SetToSeq(Alphabet(result_cls(kc))), ANSWER_LENGTH(kc))

\* WordleKnowledge.valid_solutions / NerdleKnowledge.valid_solutions
valid_solutions(kb, solution_list) ==
    SelectSeq(solution_list, LAMBDA w : is_valid_solution(kb, w))

RECURSIVE Sum(_)
Sum(s) == IF s = <<>> THEN 0 ELSE Head(s) + Sum(Tail(s))

\* a variant of copy that starts from a new instance instead of a snapshot
copy_fresh(kb) ==
    [char_mins |-> [x \in {} |-> 0],
     char_maxes |-> [x \in {} |-> 0],
     wrong_positions |-> [i \in DOMAIN kb.wrong_positions |-> {}],
     answer |-> [i \in DOMAIN kb.answer |-> None]]

\* KnowledgeBase.copy: copy.deepcopy, an independent snapshot equal to the original
copy(kb) == kb

NoneArg == [is_none |-> TRUE, list |-> <<>>]
ListArg(l) == [is_none |-> FALSE, list |-> l]

NoReduction == [status |-> None, num |-> 0, den |-> 1, n |-> 0, default |-> FALSE]

NoGen == [size_l |-> 0, term_sizes |-> <<>>, operators |-> <<>>, terms |-> <<>>,
          line |-> <<>>]
NoSearch == [guesses |-> <<>>, pending |-> {}, completed |-> <<>>, data |-> <<>>,
             ranked |-> <<>>]

----------------------------------------------------------------------------
(* best_guess_cmd *)

\* the characters of both alphabets in the order of their code points
code_points ==
    <<"*", "+", "-", "/">> \o digits \o <<"=">> \o ascii_lowercase

ord(c) == CHOOSE i \in DOMAIN code_points : code_points[i] = c

\* a < b on two str
RECURSIVE str_lt(_, _)
str_lt(a, b) ==
    IF b = <<>> THEN FALSE
    ELSE IF a = <<>> THEN TRUE
    ELSE IF ord(Head(a)) # ord(Head(b)) THEN ord(Head(a)) < ord(Head(b))
    ELSE str_lt(Tail(a), Tail(b))

\* x < y on two (reduction, guess) tuples, the reduction a fraction num / den
tuple_lt(x, y) ==
    \/ x.reduction.num * y.reduction.den < y.reduction.num * x.reduction.den
    \/ /\ x.reduction.num * y.reduction.den = y.reduction.num * x.reduction.den
       /\ str_lt(x.guess, y.guess)

RECURSIVE insert(_, _)
insert(x, s) ==
    IF s = <<>> THEN <<x>>
    ELSE IF tuple_lt(Head(s), x) THEN <<Head(s)>> \o insert(x, Tail(s))
    ELSE <<x>> \o s

\* a variant of sort that leaves the list as it is
sort_none(data) == data

\* data.sort()
RECURSIVE sort(_)
sort(data) == IF data = <<>> THEN <<>> ELSE insert(Head(data), sort(Tail(data)))

\* KnowledgeBase.guess_reduction.  The returned float n - total / n is kept as
\* the exact fraction num / den = (n * n - total) / n.
guess_reduction(kb, kc, g, pretend_answers) ==
    LET pretend == IF pretend_answers.is_none
                   THEN valid_solutions(kb, default_solution_list(kc))
                   ELSE pretend_answers.list
        n == Len(pretend)
        folds == [i \in DOMAIN pretend |->
                     add_result(copy(kb), get(result_cls(kc), pretend[i], g))]
        total == Sum([i \in DOMAIN pretend |->
                     Len(valid_solutions((CHOOSE o \in folds[i] : TRUE).k,
                                         default_solution_list(kc)))])
    IN IF \E i \in DOMAIN pretend : \E o \in folds[i] : o.raised
       THEN [status |-> "AssertionError", num |-> 0, den |-> 1, n |-> n,
             default |-> pretend_answers.is_none]
       ELSE IF n = 0
       THEN [status |-> "ZeroDivisionError", num |-> 0, den |-> 1, n |-> n,
             default |-> pretend_answers.is_none]
       ELSE [status |-> "returned", num |-> n * n - total, den |-> n, n |-> n,
             default |-> pretend_answers.is_none]

----------------------------------------------------------------------------
(* nerdle_equations.generate *)

ANSWER_SIZE == 8

\* the string "+-*/" that operators are drawn from
operator_chars == <<"+", "-", "*", "/">>

RECURSIVE Pow10(_)
Pow10(n) == IF n = 0 THEN 1 ELSE 10 * Pow10(n - 1)

\* str(n) of an int n >= 0
RECURSIVE DecStr(_)
DecStr(n) ==
    IF n < 10 THEN <<digits[n + 1]>>
    ELSE DecStr(n \div 10) \o <<digits[(n % 10) + 1]>>

\* str(n) of an int
IntStr(n) == IF n < 0 THEN <<"-">> \o DecStr(0 - n) ELSE DecStr(n)

\* "".join(ill(map(str, terms), operators))
RECURSIVE equation_str(_, _)
equation_str(terms, operators) ==
    IF operators = <<>> THEN DecStr(terms[1])
    ELSE DecStr(terms[1]) \o <<operators[1]>>
             \o equation_str(Tail(terms), Tail(operators))

DigitValue(c) == CHOOSE d \in 0..9 : digits[d + 1] = c

\* the tokens Python reads back from the equation: the int literals and the
\* operators between them
RECURSIVE Tokens(_, _, _, _, _)
Tokens(s, i, cur, terms, operators) ==
    IF i > Len(s) THEN [terms |-> Append(terms, cur), operators |-> operators]
    ELSE IF s[i] \in Range(digits)
    THEN Tokens(s, i + 1, 10 * cur + DigitValue(s[i]), terms, operators)
    ELSE Tokens(s, i + 1, 0, Append(terms, cur), Append(operators, s[i]))

\* a variant of eval_loop in which * and / bind no tighter than + and -
RECURSIVE eval_loop_flat(_, _, _, _, _, _)
eval_loop_flat(t, i, acc, sign, cur, inexact) ==
    IF i > Len(t.operators)
    THEN [num |-> cur.num, den |-> cur.den, inexact |-> inexact]
    ELSE LET op == t.operators[i]
             x == t.terms[i + 1]
         IN CASE op = "*" ->
                   eval_loop_flat(t, i + 1, acc, sign,
                                  [num |-> cur.num * x, den |-> cur.den], inexact)
              [] op = "/" ->
                   eval_loop_flat(t, i + 1, acc, sign,
                                  [num |-> cur.num, den |-> cur.den * x],
                                  inexact \/ cur.num % (cur.den * x) # 0)
              [] op = "+" ->
                   eval_loop_flat(t, i + 1, acc, sign,
                                  [num |-> cur.num + x * cur.den, den |-> cur.den], inexact)
              [] op = "-" ->
                   eval_loop_flat(t, i + 1, acc, sign,
                                  [num |-> cur.num - x * cur.den, den |-> cur.den], inexact)

\* evaluation of the tokens from operator i on with Python's precedence:
\* acc is the sum of the products already closed, cur the product being
\* read, sign its sign.  Values are exact fractions num / den; inexact says
\* that some quotient was not an integer, so that the float computed by
\* Python was rounded.
RECURSIVE eval_loop(_, _, _, _, _, _)
eval_loop(t, i, acc, sign, cur, inexact) ==
    IF i > Len(t.operators)
    THEN [num |-> acc.num * cur.den + sign * cur.num * acc.den,
          den |-> acc.den * cur.den,
          inexact |-> inexact]
    ELSE LET op == t.operators[i]
             x == t.terms[i + 1]
         IN CASE op = "*" ->
                   eval_loop(t, i + 1, acc, sign,
                             [num |-> cur.num * x, den |-> cur.den], inexact)
              [] op = "/" ->
                   eval_loop(t, i + 1, acc, sign,
                             [num |-> cur.num, den |-> cur.den * x],
                             inexact \/ cur.num % (cur.den * x) # 0)
              [] op \in {"+", "-"} ->
                   eval_loop(t, i + 1,
                             [num |-> acc.num * cur.den + sign * cur.num * acc.den,
                              den |-> acc.den * cur.den],
                             IF op = "+" THEN 1 ELSE 0 - 1,
                             [num |-> x, den |-> 1], inexact)

\* eval(equation): an int when the equation has no "/", else a float
eval(equation) ==
    LET t == Tokens(equation, 1, 0, <<>>, <<>>)
        v == eval_loop(t, 1, [num |-> 0, den |-> 1], 1,
                       [num |-> t.terms[1], den |-> 1], FALSE)
    IN [num |-> v.num, den |-> v.den, inexact |-> v.inexact,
        is_int |-> "/" \notin Range(t.operators)]

\* the tuples of itertools.product(range(1, max_term_size + 1), ...) that pass
\* `sum(term_sizes) == total_term_length`
term_sizes_gn(num_terms, max_term_size, total_term_length) ==
    {ts \in [1..num_terms -> 1..max_term_size] : Sum(ts) = total_term_length}

\* itertools.product(*(["+-*/"] * num_operators))
operators_gn(num_operators) == [1..num_operators -> Range(operator_chars)]

\* range(10 ** (ts - 1), 10 ** (ts))
term_generator(ts) == Pow10(ts - 1)..(Pow10(ts) - 1)

\* itertools.product(*term_generators)
RECURSIVE terms_product(_)
terms_product(term_sizes) ==
    IF term_sizes = <<>> THEN {<<>>}
    ELSE {<<x>> \o rest : x \in term_generator(Head(term_sizes)),
                          rest \in terms_product(Tail(term_sizes))}

\* one pass of the innermost loop body: the set of lines it may print, <<>>
\* standing for none.  A float that was rounded on the way and whose exact
\* value is an integer may or may not satisfy is_integer().
iteration(size_l, terms, operators) ==
    LET size_r == ANSWER_SIZE - size_l - 1
        equation == equation_str(terms, operators)
        value == eval(equation)
        int_answer == value.num \div value.den
        line == IF Len(IntStr(int_answer)) = size_r
                THEN equation \o <<"=">> \o IntStr(int_answer)
                ELSE <<>>
    IN IF value.num % value.den # 0 THEN {<<>>}
       ELSE IF value.is_int \/ ~value.inexact THEN {line}
       ELSE {line, <<>>}

----------------------------------------------------------------------------
(* SpecGet: get, then str, then from_str, on every pair of equal length *)

InitGet ==
    /\ pc = "start"
    /\ cls \in ResultClasses
    /\ \E n \in 1..MaxLen : answer \in Words(cls, n) /\ guess \in Words(cls, n)
    /\ result = NoResult
    /\ encoded = <<>>
    /\ decoded = NoOutcome
    /\ k = NewKnowledge("WordleKnowledge")
    /\ hist = <<>>
    /\ red = NoReduction
    /\ gen = NoGen
    /\ search = NoSearch

DoGet ==
    /\ pc = "start"
    /\ result' = get(cls, answer, guess)
    /\ pc' = "got"
    /\ UNCHANGED <<cls, answer, guess, encoded, decoded, k, hist, red, gen, search>>

DoStr ==
    /\ pc = "got"
    /\ encoded' = Str(result)
    /\ pc' = "encoded"
    /\ UNCHANGED <<cls, answer, guess, result, decoded, k, hist, red, gen, search>>

DoFromStr ==
    /\ pc = "encoded"
    /\ decoded' = from_str(cls, encoded)
    /\ pc' = "decoded"
    /\ UNCHANGED <<cls, answer, guess, result, encoded, k, hist, red, gen, search>>

NextGet == DoGet \/ DoStr \/ DoFromStr

SpecGet == InitGet /\ [][NextGet]_vars

----------------------------------------------------------------------------
(* SpecWords: get, then str, then from_str, on the words of the test suite *)

\* the answers and guesses of tests/test_wordle.py
TestWords ==
    {<<"p","o","i","n","t">>, <<"t","i","t","l","e">>, <<"t","r","o","u","t">>,
     <<"a","b","b","e","y">>, <<"b","l","o","b","s">>, <<"b","l","u","r","b">>,
     <<"b","o","b","b","y">>, <<"o","d","d","e","r">>, <<"o","r","d","e","r">>}

InitWords ==
    /\ pc = "start"
    /\ cls = "WordleResult"
    /\ answer \in TestWords
    /\ guess \in TestWords
    /\ result = NoResult
    /\ encoded = <<>>
    /\ decoded = NoOutcome
    /\ k = NewKnowledge("WordleKnowledge")
    /\ hist = <<>>
    /\ red = NoReduction
    /\ gen = NoGen
    /\ search = NoSearch

SpecWords == InitWords /\ [][NextGet]_vars

----------------------------------------------------------------------------
(* SpecGen: generate, one pass of its innermost loop at a time; the passes
   are taken in any order *)

InitGen ==
    /\ pc = "generate"
    /\ gen = NoGen
    /\ cls = "NerdleResult"
    /\ answer = <<>>
    /\ guess = <<>>
    /\ result = NoResult
    /\ encoded = <<>>
    /\ decoded = NoOutcome
    /\ k = NewKnowledge("NerdleKnowledge")
    /\ hist = <<>>
    /\ red = NoReduction
    /\ search = NoSearch

\* the loops over size_l, num_operators and (term_sizes, operators)
Shape ==
    /\ pc = "generate"
    /\ \E size_l \in 1..(ANSWER_SIZE - 2) :
          LET max_operators == (size_l - 1) \div 2
          IN \E num_operators \in 1..max_operators :
                LET total_term_length == size_l - num_operators
                    num_terms == num_operators + 1
                    max_term_size == total_term_length - (num_terms - 1)
                IN \E term_sizes \in term_sizes_gn(num_terms, max_term_size,
                                                    total_term_length) :
                      \E operators \in operators_gn(num_operators) :
                          gen' = [size_l |-> size_l, term_sizes |-> term_sizes,
                                  operators |-> operators, terms |-> <<>>,
                                  line |-> <<>>]
    /\ pc' = "terms"
    /\ UNCHANGED <<cls, answer, guess, result, encoded, decoded, k, hist, red, search>>

\* the loop over terms: the pass that prints a line
PrintLine ==
    /\ pc = "terms"
    /\ \E terms \in terms_product(gen.term_sizes) :
          \E line \in iteration(gen.size_l, terms, gen.operators) \ {<<>>} :
              gen' = [gen EXCEPT !.terms = terms, !.line = line]
    /\ pc' = "printed"
    /\ UNCHANGED <<cls, answer, guess, result, encoded, decoded, k, hist, red, search>>

\* the loop over terms: the pass that prints nothing
Continue ==
    /\ pc = "terms"
    /\ \E terms \in terms_product(gen.term_sizes) :
          <<>> \in iteration(gen.size_l, terms, gen.operators)
    /\ pc' = "continued"
    /\ UNCHANGED <<cls, answer, guess, result, encoded, decoded, k, hist, red, gen,
                   search>>

NextGen == Shape \/ PrintLine \/ Continue

SpecGen == InitGen /\ [][NextGen]_vars

----------------------------------------------------------------------------
(* SpecCodec: from_str on arbitrary text *)

Markers == {"?", "@"}

\* letters are foreign to NerdleResult and digits and operators to WordleResult
Symbols == Alphabet("WordleResult") \cup Alphabet("NerdleResult") \cup Markers

InitCodec ==
    /\ pc = "raw"
    /\ cls \in ResultClasses
    /\ \E n \in 0..MaxStrLen : encoded \in [1..n -> Symbols]
    /\ answer = <<>>
    /\ guess = <<>>
    /\ result = NoResult
    /\ decoded = NoOutcome
    /\ k = NewKnowledge("WordleKnowledge")
    /\ hist = <<>>
    /\ red = NoReduction
    /\ gen = NoGen
    /\ search = NoSearch

Decode ==
    /\ pc = "raw"
    /\ decoded' = from_str(cls, encoded)
    /\ pc' = "parsed"
    /\ UNCHANGED <<cls, answer, guess, result, encoded, k, hist, red, gen, search>>

NextCodec == Decode

SpecCodec == InitCodec /\ [][NextCodec]_vars

----------------------------------------------------------------------------
(* Spec: a KnowledgeBase fed arbitrary Results *)

Pieces(kc) == [character : Alphabet(result_cls(kc)), feedback : TileFeedback]

\* every Result of the answer's length a caller can build (from_results)
Results(kc) ==
    {[cls |-> result_cls(kc), pieces |-> p] :
        p \in [1..ANSWER_LENGTH(kc) -> Pieces(kc)]}

Candidates(kc) == Words(result_cls(kc), ANSWER_LENGTH(kc))

Fold(r, b) == [result |-> r, raised |-> b]

nfolds == Len(hist)
last == hist[Len(hist)].result
raised == hist[Len(hist)].raised

Init ==
    /\ pc = "knowledge"
    /\ cls \in KnowledgeClasses
    /\ k = NewKnowledge(cls)
    /\ hist = <<>>
    /\ red = NoReduction
    /\ gen = NoGen
    /\ search = NoSearch
    /\ answer = <<>>
    /\ guess = <<>>
    /\ result = NoResult
    /\ encoded = <<>>
    /\ decoded = NoOutcome

AddResult ==
    /\ pc = "knowledge"
    /\ nfolds < MaxFolds
    /\ \E r \in Results(cls) : \E o \in add_result(k, r) :
          /\ k' = o.k
          /\ hist' = Append(hist, Fold(r, o.raised))
    /\ UNCHANGED <<pc, cls, answer, guess, result, encoded, decoded, red, gen, search>>

Next == AddResult

Spec == Init /\ [][Next]_vars

----------------------------------------------------------------------------
(* SpecReduce: guess_reduction on a KnowledgeBase built by from_results *)

PretendArgs(kc) ==
    {NoneArg} \cup
    {ListArg(l) : l \in UNION {[1..n -> Candidates(kc)] : n \in 0..MaxPretend}}

\* best_guess_cmd: knowledge = Knowledge.from_results(*results), then
\* knowledge.guess_reduction(guess, pretend_answers=pretend_answers)
GuessReduction ==
    /\ pc = "knowledge"
    /\ nfolds > 0 => ~raised
    /\ \E g \in Candidates(cls) : \E pa \in PretendArgs(cls) :
          /\ guess' = g
          /\ red' = guess_reduction(k, cls, g, pa)
    /\ pc' = "reduced"
    /\ UNCHANGED <<cls, answer, result, encoded, decoded, k, hist, gen, search>>

NextReduce == AddResult \/ GuessReduction

SpecReduce == Init /\ [][NextReduce]_vars

----------------------------------------------------------------------------
(* SpecGame: the feedback for guesses at a hidden answer, folded in turn *)

InitGame ==
    /\ pc = "game"
    /\ cls \in KnowledgeClasses
    /\ answer \in Candidates(cls)
    /\ k = NewKnowledge(cls)
    /\ hist = <<>>
    /\ red = NoReduction
    /\ gen = NoGen
    /\ search = NoSearch
    /\ guess = <<>>
    /\ result = NoResult
    /\ encoded = <<>>
    /\ decoded = NoOutcome

\* bot_cmd / play: result = get(answer, guess); knowledge.add_result(result)
Play ==
    /\ pc = "game"
    /\ nfolds < MaxFolds
    /\ \E g \in Candidates(cls) :
          \E o \in add_result(k, get(result_cls(cls), answer, g)) :
              /\ guess' = g
              /\ result' = get(result_cls(cls), answer, g)
              /\ k' = o.k
              /\ hist' = Append(hist, Fold(get(result_cls(cls), answer, g), o.raised))
    /\ UNCHANGED <<pc, cls, answer, encoded, decoded, red, gen, search>>

NextGame == Play

SpecGame == InitGame /\ [][NextGame]_vars

----------------------------------------------------------------------------
(* SpecSearch: best_guess_cmd from the submission of one guess_reduction task
   per guess to the list it returns; the tasks complete in any order *)

\* number of guesses scored by one search
MaxGuesses == 3

\* sorted(...) of the guesses: any list of different words in lexical order
GuessLists(kc) ==
    {g \in UNION {[1..n -> Candidates(kc)] : n \in 1..MaxGuesses} :
        \A i, j \in DOMAIN g : i < j => str_lt(g[i], g[j])}

\* Knowledge.from_results(*results) with no result or one
SearchModels(kc) ==
    {NewKnowledge(kc)} \cup
    {o.k : o \in {x \in UNION {add_result(NewKnowledge(kc), r) : r \in Results(kc)} :
                      ~x.raised}}

\* the state on entry to the as_completed loop: every future is pending
InitSearch ==
    /\ pc = "submitted"
    /\ cls = "WordleKnowledge"
    /\ k \in SearchModels(cls)
    /\ \E g \in GuessLists(cls) :
          search = [guesses |-> g, pending |-> DOMAIN g, completed |-> <<>>,
                    data |-> <<>>, ranked |-> <<>>]
    /\ hist = <<>>
    /\ red = NoReduction
    /\ gen = NoGen
    /\ answer = <<>>
    /\ guess = <<>>
    /\ result = NoResult
    /\ encoded = <<>>
    /\ decoded = NoOutcome

\* as_completed yields future f, whose task returned
TaskReturned ==
    /\ pc = "submitted"
    /\ \E f \in search.pending :
          LET reduction == guess_reduction(k, cls, search.guesses[f], NoneArg)
          IN /\ reduction.status = "returned"
             /\ search' = [search EXCEPT
                    !.pending = @ \ {f},
                    !.completed = Append(@, f),
                    !.data = Append(@, [reduction |-> [num |-> reduction.num,
                                                       den |-> reduction.den],
                                        guess |-> search.guesses[f]])]
    /\ UNCHANGED <<pc, cls, answer, guess, result, encoded, decoded, k, hist, red, gen>>

\* as_completed yields future f, whose task raised: the guess is reported and
\* left out of data
TaskRaised ==
    /\ pc = "submitted"
    /\ \E f \in search.pending :
          /\ guess_reduction(k, cls, search.guesses[f], NoneArg).status # "returned"
          /\ search' = [search EXCEPT
                 !.pending = @ \ {f},
                 !.completed = Append(@, f)]
    /\ UNCHANGED <<pc, cls, answer, guess, result, encoded, decoded, k, hist, red, gen>>

\* data.sort() and the return, once as_completed is exhausted
SortAndReturn ==
    /\ pc = "submitted"
    /\ search.pending = {}
    /\ search' = [search EXCEPT
           !.data = sort(search.data),
           !.ranked = [i \in DOMAIN search.data |-> sort(search.data)[i].guess]]
    /\ pc' = "returned"
    /\ UNCHANGED <<cls, answer, guess, result, encoded, decoded, k, hist, red, gen>>

NextSearch == TaskReturned \/ TaskRaised \/ SortAndReturn

SpecSearch == InitSearch /\ [][NextSearch]_vars

----------------------------------------------------------------------------
(* SpecFold: the feedback for one guess at a hidden answer folded into an
   empty model.  ANSWER_LENGTH is scaled to FoldLen here: a guess then has
   room for a character twice and another character. *)

\* ANSWER_LENGTH in SpecFold
FoldLen == 3

\* dataclass defaults followed by KnowledgeBase.__post_init__, for ANSWER_LENGTH = n
EmptyKnowledge(n) ==
    [char_mins |-> EmptyDict,
     char_maxes |-> EmptyDict,
     wrong_positions |-> [i \in 1..n |-> {}],
     answer |-> [i \in 1..n |-> None]]

InitFold ==
    /\ pc = "empty"
    /\ cls \in KnowledgeClasses
    /\ answer \in Words(result_cls(cls), FoldLen)
    /\ guess \in Words(result_cls(cls), FoldLen)
    /\ k = EmptyKnowledge(FoldLen)
    /\ hist = <<>>
    /\ red = NoReduction
    /\ gen = NoGen
    /\ search = NoSearch
    /\ result = NoResult
    /\ encoded = <<>>
    /\ decoded = NoOutcome

\* result = get(answer, guess); knowledge.add_result(result)
FoldResult ==
    /\ pc = "empty"
    /\ result' = get(result_cls(cls), answer, guess)
    /\ \E o \in add_result(k, get(result_cls(cls), answer, guess)) :
          /\ k' = o.k
          /\ hist' = Append(hist, Fold(get(result_cls(cls), answer, guess), o.raised))
    /\ pc' = "folded"
    /\ UNCHANGED <<cls, answer, guess, encoded, decoded, red, gen, search>>

NextFold == FoldResult

SpecFold == InitFold /\ [][NextFold]_vars

----------------------------------------------------------------------------
(* Properties of get and the codec *)

\* how many non-matching occurrences of g[i] the guess has up to position i
NonMatchRank(a, g, i) == Cardinality({j \in 1..i : g[j] = g[i] /\ g[j] # a[j]})

\* how many occurrences of c the guess has at the answer's positions of c
Matches(a, g, c) == Cardinality({j \in DOMAIN g : g[j] = c /\ a[j] = c})

ExpectedTag(a, g, i) ==
    IF g[i] = a[i] THEN "correct"
    ELSE IF NonMatchRank(a, g, i) + Matches(a, g, g[i]) <= count(a, g[i])
         THEN "wrong_place"
         ELSE "wrong"

NotWrong(r, c) ==
    Cardinality({i \in DOMAIN r.pieces :
        r.pieces[i].character = c /\ r.pieces[i].feedback \in {"correct", "wrong_place"}})

\* C1: get returns one piece per guess character, in order; a piece is correct
\* exactly at a position match; the other occurrences of a character are
\* wrong_place from left to right until the character's count in the answer
\* is used up, then wrong; so min(count in guess, count in answer) are not wrong
C1_FeedbackRule ==
    pc # "start" =>
        /\ Len(result.pieces) = Len(guess)
        /\ \A i \in DOMAIN guess :
              /\ result.pieces[i].character = guess[i]
              /\ result.pieces[i].feedback = ExpectedTag(answer, guess, i)
              /\ result.pieces[i].feedback = "correct" <=> guess[i] = answer[i]
        /\ \A c \in Range(guess) :
              NotWrong(result, c) = Min(count(guess, c), count(answer, c))

\* a guess with a character twice off position and once in the answer:
\* the left occurrence is wrong_place and the right one wrong
C1_Witness ==
    /\ pc = "got"
    /\ \E i, j \in DOMAIN guess :
          /\ i < j
          /\ guess[i] = guess[j]
          /\ guess[i] # answer[i]
          /\ guess[j] # answer[j]
          /\ result.pieces[i].feedback = "wrong_place"
          /\ result.pieces[j].feedback = "wrong"

\* C2: for each variant's Result class, decoding the encoding of the computed
\* feedback gives a Result equal to it (dataclass equality: same class, same pieces)
C2_RoundTrip ==
    pc = "decoded" => decoded.status = "ok" /\ decoded.result = result

\* C9: from_str raises ValueError for every text with a marker that is the
\* first symbol or follows a marker, or with a symbol that is neither a marker
\* nor in the variant's alphabet
Malformed(c, s) ==
    \E i \in DOMAIN s :
        \/ s[i] \in Markers /\ (i = 1 \/ s[i - 1] \in Markers)
        \/ s[i] \notin allowed_characters(c) \cup Markers

C9_RejectsMalformed ==
    pc = "parsed" /\ Malformed(cls, encoded) => decoded.status = "ValueError"

----------------------------------------------------------------------------
(* Properties of the KnowledgeBase *)

GuessOf(r) == [i \in DOMAIN r.pieces |-> r.pieces[i].character]

\* C3: folding the feedback of guesses at one answer never raises, keeps the
\* answer a valid solution and rules out every folded guess other than the answer
C3_GameConsistent ==
    pc = "game" =>
        /\ \A i \in DOMAIN hist : ~hist[i].raised
        /\ is_valid_solution(k, answer)
        /\ \A i \in DOMAIN hist :
              GuessOf(hist[i].result) # answer =>
                  ~is_valid_solution(k, GuessOf(hist[i].result))

\* two different guesses, neither the answer, have been folded
C3_Witness ==
    /\ pc = "game"
    /\ nfolds = 2
    /\ GuessOf(hist[1].result) # answer
    /\ GuessOf(hist[2].result) # answer
    /\ GuessOf(hist[1].result) # GuessOf(hist[2].result)

NumValid(kb) == Len(valid_solutions(kb, default_solution_list(cls)))

\* C4: no add_result call, raising or not, makes valid_solutions longer, over
\* the default solution list and over every one-word solution list (so over
\* every fixed solution list, whose count is the sum over its words)
C4_Monotone ==
    [][/\ NumValid(k') <= NumValid(k)
       /\ \A w \in Candidates(cls) :
              Len(valid_solutions(k', <<w>>)) <= Len(valid_solutions(k, <<w>>))]_vars

\* two Results were folded without raising and some, not all, candidates remain
C4_Witness ==
    /\ pc = "knowledge"
    /\ nfolds = 2
    /\ ~hist[1].raised
    /\ ~hist[2].raised
    /\ hist[1].result # hist[2].result
    /\ 0 < NumValid(k)
    /\ NumValid(k) < Len(default_solution_list(cls))

Conflicts(r1, r2) ==
    \E p \in DOMAIN r1.pieces \cap DOMAIN r2.pieces :
        /\ r1.pieces[p].feedback = "correct"
        /\ r2.pieces[p].feedback = "correct"
        /\ r1.pieces[p].character # r2.pieces[p].character

\* C5: once a Result has been folded without raising, folding a Result that
\* tags another character correct at one of its correct positions raises
C5_ConflictRaises ==
    \A i, j \in DOMAIN hist :
        i < j /\ ~hist[i].raised /\ Conflicts(hist[i].result, hist[j].result)
            => hist[j].raised

\* the second of two Results conflicts with the first and its fold raised
C5_Witness ==
    /\ nfolds = 2
    /\ ~hist[1].raised
    /\ Conflicts(hist[1].result, hist[2].result)
    /\ hist[2].raised

\* C6: after a fold that did not raise, folding the same Result again does
\* not raise and leaves answer, char_mins, char_maxes and wrong_positions as they are
C6_Idempotent ==
    pc = "knowledge" /\ nfolds > 0 /\ ~raised =>
        add_result(k, last) = {[k |-> k, raised |-> FALSE]}

HasTag(r, f) == \E i \in DOMAIN r.pieces : r.pieces[i].feedback = f

\* a second, different Result with a wrong and a wrong_place piece was folded
\* without raising into a model that already held a Result
C6_Witness ==
    /\ pc = "knowledge"
    /\ nfolds = 2
    /\ ~hist[1].raised
    /\ ~raised
    /\ hist[1].result # last
    /\ HasTag(last, "wrong")
    /\ HasTag(last, "wrong_place")

\* C10: in every state, also one left by a raising call, a character with a
\* minimum and a maximum has minimum <= maximum
C10_MinLeMax ==
    \A c \in DOMAIN k.char_mins \cap DOMAIN k.char_maxes :
        k.char_mins[c] <= k.char_maxes[c]

\* a call raised and left a character with both a minimum and a maximum
C10_Witness ==
    /\ pc = "knowledge"
    /\ nfolds = 2
    /\ raised
    /\ \E c \in DOMAIN k.char_mins \cap DOMAIN k.char_maxes : k.char_mins[c] > 0

----------------------------------------------------------------------------
(* Properties of guess_reduction: red.num / red.den is the returned value *)

\* C7: a returned reduction r satisfies 0 <= r <= number of pretend answers
C7_Bounds ==
    pc = "reduced" /\ red.status = "returned" =>
        /\ 0 <= red.num
        /\ red.num <= red.n * red.den

\* C7 amended: r <= number of pretend answers and
\* r >= number of pretend answers - number of valid solutions of the model,
\* which is 0 <= r when the pretend answers are the default
C7_BoundsAmended ==
    pc = "reduced" /\ red.status = "returned" =>
        /\ red.num <= red.n * red.den
        /\ red.num >= (red.n - NumValid(k)) * red.den
        /\ red.default => 0 <= red.num

\* the default pretend answers, several of them, and a reduction strictly
\* between the bounds
C7_Witness ==
    /\ pc = "reduced"
    /\ red.status = "returned"
    /\ red.default
    /\ red.n >= 2
    /\ 0 < red.num
    /\ red.num < red.n * red.den
    /\ nfolds > 0

\* C8: with no pretend answers, passed or by default, guess_reduction returns 0
C8_EmptyReturnsZero ==
    pc = "reduced" /\ red.n = 0 => red.status = "returned" /\ red.num = 0

----------------------------------------------------------------------------
(* Properties of get on the words of the test suite *)

Tags(r) == [i \in DOMAIN r.pieces |-> r.pieces[i].feedback]

point == <<"p","o","i","n","t">>
title == <<"t","i","t","l","e">>

\* C11: get(answer="point", guess="title") tags the pieces, in order,
\* t=wrong, i=wrong_place, t=wrong, l=wrong, e=correct
C11_PointTitle ==
    pc # "start" /\ answer = point /\ guess = title =>
        /\ GuessOf(result) = title
        /\ Tags(result) = <<"wrong", "wrong_place", "wrong", "wrong", "correct">>

\* C11 amended: get(answer="point", guess="title") tags the pieces, in order,
\* t=wrong_place, i=wrong_place, t=wrong, l=wrong, e=wrong, and the Result
\* encodes to t?i?tle
C11_PointTitleAmended ==
    /\ pc # "start" /\ answer = point /\ guess = title =>
           /\ GuessOf(result) = title
           /\ Tags(result) = <<"wrong_place", "wrong_place", "wrong", "wrong", "wrong">>
    /\ pc \in {"encoded", "decoded"} /\ answer = point /\ guess = title =>
           encoded = <<"t", "?", "i", "?", "t", "l", "e">>

\* the feedback for title against point has been computed and encoded
C11_Witness ==
    /\ pc = "encoded"
    /\ answer = point
    /\ guess = title
    /\ Len(result.pieces) = 5

----------------------------------------------------------------------------
(* Properties of the equation generator: the printed line is read back *)

IsNat(s) == Len(s) > 0 /\ \A i \in DOMAIN s : s[i] \in Range(digits)

RECURSIVE NatValue(_)
NatValue(s) ==
    IF Len(s) = 1 THEN DigitValue(s[1])
    ELSE 10 * NatValue(SubSeq(s, 1, Len(s) - 1)) + DigitValue(s[Len(s)])

IsInt(s) == IsNat(s) \/ (Len(s) > 1 /\ s[1] = "-" /\ IsNat(Tail(s)))

IntValue(s) == IF s[1] = "-" THEN 0 - NatValue(Tail(s)) ELSE NatValue(s)

Last(S) == CHOOSE i \in S : \A j \in S : j <= i

\* numbers separated by single operators
IsExpr(s) ==
    /\ Len(s) > 0
    /\ \A i \in DOMAIN s : s[i] \in Range(digits) \cup Range(operator_chars)
    /\ \A i \in DOMAIN s :
           s[i] \in Range(operator_chars) =>
               /\ 1 < i /\ i < Len(s)
               /\ s[i - 1] \in Range(digits)
               /\ s[i + 1] \in Range(digits)

\* the value num / den of a product: a number, or a product times or
\* divided by a number
RECURSIVE ProductValue(_)
ProductValue(s) ==
    LET at == {i \in DOMAIN s : s[i] \in {"*", "/"}}
        p == Last(at)
        l == ProductValue(SubSeq(s, 1, p - 1))
        r == NatValue(SubSeq(s, p + 1, Len(s)))
    IN IF at = {} THEN [num |-> NatValue(s), den |-> 1]
       ELSE IF s[p] = "*" THEN [num |-> l.num * r, den |-> l.den]
       ELSE [num |-> l.num, den |-> l.den * r]

\* the value num / den of an expression: a product, or an expression plus or
\* minus a product
RECURSIVE ExprValue(_)
ExprValue(s) ==
    LET at == {i \in DOMAIN s : s[i] \in {"+", "-"}}
        p == Last(at)
        l == ExprValue(SubSeq(s, 1, p - 1))
        r == ProductValue(SubSeq(s, p + 1, Len(s)))
    IN IF at = {} THEN ProductValue(s)
       ELSE IF s[p] = "+"
       THEN [num |-> l.num * r.den + r.num * l.den, den |-> l.den * r.den]
       ELSE [num |-> l.num * r.den - r.num * l.den, den |-> l.den * r.den]

EqualsAt(s) == {i \in DOMAIN s : s[i] = "="}
LeftSide(s) == SubSeq(s, 1, Last(EqualsAt(s)) - 1)
RightSide(s) == SubSeq(s, Last(EqualsAt(s)) + 1, Len(s))

\* C12: every printed line has length ANSWER_SIZE and one "=", its right
\* side is an integer, and its left side is an expression whose value, by
\* the usual precedence and exact division, is that integer
C12_Equations ==
    pc = "printed" =>
        /\ Len(gen.line) = ANSWER_SIZE
        /\ Cardinality(EqualsAt(gen.line)) = 1
        /\ IsExpr(LeftSide(gen.line))
        /\ IsInt(RightSide(gen.line))
        /\ ExprValue(LeftSide(gen.line)).num =
               IntValue(RightSide(gen.line)) * ExprValue(LeftSide(gen.line)).den

\* a line with a difference and a quotient on the left and a negative
\* integer on the right has been printed
C12_Witness ==
    /\ pc = "printed"
    /\ Len(gen.operators) = 2
    /\ gen.operators[1] = "-"
    /\ gen.operators[2] = "/"
    /\ RightSide(gen.line)[1] = "-"

----------------------------------------------------------------------------
(* Properties of the search *)

\* the outcome of the task of each guess submitted
Scores == [w \in Range(search.guesses) |-> guess_reduction(k, cls, w, NoneArg)]

Times(s, w) == Cardinality({i \in DOMAIN s : s[i] = w})

\* v is strictly before w in the ranking given the outcomes sc
Before(sc, v, w) ==
    \/ sc[v].num * sc[w].den < sc[w].num * sc[v].den
    \/ /\ sc[v].num * sc[w].den = sc[w].num * sc[v].den
       /\ str_lt(v, w)

\* C13: whatever the order in which the tasks complete, the list returned
\* holds the guesses whose task returned, each as often as it was submitted,
\* by ascending reduction and, at equal reduction, in lexical order: it is
\* a function of the model and the guesses alone
C13_OrderIndependent ==
    pc = "returned" =>
        LET sc == Scores
            scored == SelectSeq(search.guesses, LAMBDA w : sc[w].status = "returned")
        IN /\ Len(search.ranked) = Len(scored)
           /\ \A w \in Range(search.guesses) :
                  Times(search.ranked, w) = Times(scored, w)
           /\ \A i, j \in DOMAIN search.ranked :
                  i < j => ~Before(sc, search.ranked[j], search.ranked[i])

\* three different guesses, two of them of equal reduction and one of
\* another, were scored; the tasks completed neither in the order of
\* submission nor in the order of the list returned
C13_Witness ==
    /\ pc = "returned"
    /\ Len(search.ranked) = 3
    /\ \A i, j \in 1..3 : i # j => search.ranked[i] # search.ranked[j]
    /\ search.completed # <<1, 2, 3>>
    /\ [i \in 1..3 |-> search.guesses[search.completed[i]]] # search.ranked
    /\ LET sc == Scores
       IN /\ \E i \in 1..2 :
                sc[search.ranked[i]].num * sc[search.ranked[i + 1]].den =
                    sc[search.ranked[i + 1]].num * sc[search.ranked[i]].den
          /\ sc[search.ranked[1]].num * sc[search.ranked[3]].den <
                 sc[search.ranked[3]].num * sc[search.ranked[1]].den

----------------------------------------------------------------------------
(* Properties of one fold into an empty model *)

\* C14: after the Result of a guess at the answer is folded into an empty
\* model, a candidate of the answer's length is a valid solution exactly
\* when the guess gets the same tags against it as against the answer
C14_ExactFilter ==
    pc = "folded" =>
        \A w \in Words(result_cls(cls), FoldLen) :
            is_valid_solution(k, w) <=>
                Tags(get(result_cls(cls), w, guess)) = Tags(result)

----------------------------------------------------------------------------
(* Properties of a raising add_result call *)

\* the step is an add_result call that raised
RaisingCall == hist' # hist /\ hist'[Len(hist')].raised

\* C15: a raising add_result call leaves answer, char_mins, char_maxes and
\* wrong_positions as they were before the call
C15_RaiseLeavesModel ==
    [][RaisingCall => k' = k]_vars

\* C15 amended: a raising add_result call leaves wrong_positions as it was
\* and loses nothing: a known position keeps its character, no minimum
\* decreases, a maximum keeps its value; what changes in answer, char_mins
\* and char_maxes is a position, minimum or maximum of the rejected Result
C15_RaiseKeepsModel ==
    [][RaisingCall =>
          LET r == hist'[Len(hist')].result
          IN /\ k'.wrong_positions = k.wrong_positions
             /\ \A i \in DOMAIN k.answer :
                    /\ k.answer[i] # None => k'.answer[i] = k.answer[i]
                    /\ k'.answer[i] # k.answer[i] =>
                           r.pieces[i] = ResultPiece(k'.answer[i], "correct")
             /\ DOMAIN k.char_mins \subseteq DOMAIN k'.char_mins
             /\ \A c \in DOMAIN k.char_mins : k'.char_mins[c] >= k.char_mins[c]
             /\ \A c \in DOMAIN k'.char_mins :
                    (c \notin DOMAIN k.char_mins \/ k'.char_mins[c] # k.char_mins[c]) =>
                        /\ c \in DOMAIN char_mins(r)
                        /\ k'.char_mins[c] = char_mins(r)[c]
             /\ DOMAIN k.char_maxes \subseteq DOMAIN k'.char_maxes
             /\ \A c \in DOMAIN k.char_maxes : k'.char_maxes[c] = k.char_maxes[c]
             /\ \A c \in DOMAIN k'.char_maxes \ DOMAIN k.char_maxes :
                    /\ c \in DOMAIN char_maxes(r)
                    /\ k'.char_maxes[c] = char_maxes(r)[c]]_vars

\* the second call raised after merging part of its Result: the model is
\* not the one the first call left
C15_Witness ==
    /\ pc = "knowledge"
    /\ nfolds = 2
    /\ ~hist[1].raised
    /\ raised
    /\ [k |-> k, raised |-> FALSE] \notin add_result(NewKnowledge(cls), hist[1].result)

====
